---- MODULE Spec2Model ----
(***************************************************************************)
(* Model of the obsidian-agent-skill scripts:                             *)
(*   scripts/obsidian_cli.py    the command gate and executor             *)
(*   scripts/vault_registry.py  the vault registry and discovery/merge    *)
(*                                                                         *)
(* A Python str is a sequence of one-character strings, so that strip,    *)
(* split, join, startswith and endswith are computed as the code computes  *)
(* them.  An absent str (None) is the one-element sequence None, which no  *)
(* str equals; an absent JSON value (None, null) is the record JNull.      *)
(*                                                                         *)
(* Six specifications share the variables:                                 *)
(*   SpecGate     one call of run_obsidian, for every call explored;       *)
(*   Spec         sequences of vault_registry.py invocations (add, remove, *)
(*                set-active, set-workdir, discover, list) on one registry *)
(*                document, each invocation a process that runs and exits; *)
(*   SpecWorkdir  add and set-workdir given one --workdir text, for every  *)
(*                short text;                                              *)
(*   SpecDiscover discover given one configuration file, of any shape;     *)
(*   SpecChecks   add and set-workdir given the same vault path, workdir   *)
(*                and flag;                                                *)
(*   SpecRace     two add invocations running at once on one registry      *)
(*                file, each a load, an open and a write.                  *)
(***************************************************************************)
EXTENDS Integers, Sequences, FiniteSets, TLC

VARIABLES
    call,       \* arguments and environment of the run_obsidian call
                \* (SpecWorkdir, SpecDiscover, SpecChecks: the options given;
                \* SpecRace: each writer's options, position and text)
    result,     \* the envelope the call returned (Pending before it returns)
    spawned,    \* the subprocesses the call started, in order
    file,       \* the persisted registry document (vaults.json); in SpecRace
                \* its text
    clock,      \* the wall clock: the next value utc_now_iso_z returns
    last        \* the vault_registry.py invocation that has run and not yet
                \* exited: arguments, document loaded, outcome

gate_vars == <<call, result, spawned>>

registry_vars == <<file, clock, last>>

vars == <<call, result, spawned, file, clock, last>>

(***************************************************************************)
(* Bounds of the model.                                                    *)
(***************************************************************************)
MaxCmdLen == 2

\* Number of invocations that stamp a timestamp (add, set-workdir, merge).
MaxClock == 2

\* The longest --workdir text that is normalized.
MaxWorkdirLen == 4

(***************************************************************************)
(* Strings.                                                                *)
(***************************************************************************)
None == <<"None">>

JNull == [t |-> "null"]

StartsWith(s, p) == Len(s) >= Len(p) /\ SubSeq(s, 1, Len(p)) = p

EndsWith(s, p) == Len(s) >= Len(p) /\ SubSeq(s, Len(s) - Len(p) + 1, Len(s)) = p

Whitespace == {" ", "\t", "\n"}

RECURSIVE LStripChars(_, _)
LStripChars(s, cs) ==
    IF s # <<>> /\ Head(s) \in cs THEN LStripChars(Tail(s), cs) ELSE s

RECURSIVE RStripChars(_, _)
RStripChars(s, cs) ==
    IF s # <<>> /\ s[Len(s)] \in cs THEN RStripChars(SubSeq(s, 1, Len(s) - 1), cs) ELSE s

\* str.strip(chars)
StripChars(s, cs) == RStripChars(LStripChars(s, cs), cs)

\* str.strip()
Strip(s) == StripChars(s, Whitespace)

\* True when sub occurs in s as a contiguous substring (Python's `sub in s`).
Contains(s, sub) ==
    \E i \in 1..(Len(s) - Len(sub) + 1) : SubSeq(s, i, i + Len(sub) - 1) = sub

RECURSIVE Concat(_)
Concat(ss) == IF ss = <<>> THEN <<>> ELSE Head(ss) \o Concat(Tail(ss))

(***************************************************************************)
(* The words of the command language, spelled out.                        *)
(***************************************************************************)
s_delete == <<"d","e","l","e","t","e">>
s_permanent == <<"p","e","r","m","a","n","e","n","t">>
s_plugin_uninstall == <<"p","l","u","g","i","n",":","u","n","i","n","s","t","a","l","l">>
s_publish_remove == <<"p","u","b","l","i","s","h",":","r","e","m","o","v","e">>
s_workspace_delete == <<"w","o","r","k","s","p","a","c","e",":","d","e","l","e","t","e">>
s_task_delete == <<"t","a","s","k",":","d","e","l","e","t","e">>
s_colon_delete == <<":","d","e","l","e","t","e">>
s_help == <<"h","e","l","p">>
s_version == <<"v","e","r","s","i","o","n">>
s_reload == <<"r","e","l","o","a","d">>
s_restart == <<"r","e","s","t","a","r","t">>
s_vault == <<"v","a","u","l","t">>
s_vaults == <<"v","a","u","l","t","s">>
s_vault_open == <<"v","a","u","l","t",":","o","p","e","n">>
s_vault_eq == <<"v","a","u","l","t","=">>
s_obsidian == <<"o","b","s","i","d","i","a","n">>

\* The reason tags and messages of the envelopes.
s_delete_permanent == <<"d","e","l","e","t","e","-","p","e","r","m","a","n","e","n","t">>
s_plugin_uninstall_tag == <<"p","l","u","g","i","n","-","u","n","i","n","s","t","a","l","l">>
s_publish_remove_tag == <<"p","u","b","l","i","s","h","-","r","e","m","o","v","e">>
s_workspace_delete_tag == <<"w","o","r","k","s","p","a","c","e","-","d","e","l","e","t","e">>
s_command_dash == <<"c","o","m","m","a","n","d","-">>
s_no_command == <<"N","o"," ","c","o","m","m","a","n","d"," ","p","r","o","v","i","d","e","d",".">>
s_not_found == <<"O","b","s","i","d","i","a","n"," ","C","L","I"," ","n","o","t"," ","f","o","u","n","d",":"," ">>
s_refusing == <<"R","e","f","u","s","i","n","g"," ","d","e","s","t","r","u","c","t","i","v","e"," ","o","p","e","r","a","t","i","o","n"," ","(">>
s_without_force == <<")"," ","w","i","t","h","o","u","t"," ","-","-","f","o","r","c","e","-","d","e","l","e","t","e",".">>

(***************************************************************************)
(* Python dict: a sequence of <<key, value>> pairs with distinct keys, in  *)
(* insertion order.                                                        *)
(***************************************************************************)
DictKeys(d) == {d[i][1] : i \in 1..Len(d)}

DictHas(d, k) == \E i \in 1..Len(d) : d[i][1] = k

DictGet(d, k) == d[CHOOSE i \in 1..Len(d) : d[i][1] = k][2]

\* d[k] = v: an existing key keeps its position, a new key is appended.
DictSet(d, k, v) ==
    IF DictHas(d, k)
    THEN [i \in 1..Len(d) |-> IF d[i][1] = k THEN <<k, v>> ELSE d[i]]
    ELSE Append(d, <<k, v>>)

\* d.pop(k)
DictPop(d, k) == SelectSeq(d, LAMBDA kv : kv[1] # k)

\* dict(pairs): later pairs overwrite earlier ones.
RECURSIVE DictFromPairs(_, _)
DictFromPairs(pairs, acc) ==
    IF pairs = <<>> THEN acc
    ELSE DictFromPairs(Tail(pairs), DictSet(acc, Head(pairs)[1], Head(pairs)[2]))

(***************************************************************************)
(* JSON values: [t |-> "null"], [t |-> "int", n], [t |-> "str", s],       *)
(* [t |-> "list", items], [t |-> "obj", items] (items a dict).            *)
(***************************************************************************)
JInt(n) == [t |-> "int", n |-> n]

JStr(s) == [t |-> "str", s |-> s]

JList(items) == [t |-> "list", items |-> items]

JObj(items) == [t |-> "obj", items |-> items]

JsonError == [ok |-> FALSE, val |-> JNull, next |-> 0]

Digits == <<"0","1","2","3","4","5","6","7","8","9">>

IsDigit(c) == \E i \in 1..10 : Digits[i] = c

DigitValue(c) == (CHOOSE i \in 1..10 : Digits[i] = c) - 1

RECURSIVE SkipWs(_, _)
SkipWs(s, i) == IF i <= Len(s) /\ s[i] \in Whitespace THEN SkipWs(s, i + 1) ELSE i

\* Index of the closing quote of the string literal whose body starts at i, 0 if none.
RECURSIVE StringEnd(_, _)
StringEnd(s, i) ==
    IF i > Len(s) THEN 0 ELSE IF s[i] = "\"" THEN i ELSE StringEnd(s, i + 1)

\* First index at or after i that holds no digit.
RECURSIVE DigitsEnd(_, _)
DigitsEnd(s, i) == IF i <= Len(s) /\ IsDigit(s[i]) THEN DigitsEnd(s, i + 1) ELSE i

RECURSIVE DecimalValue(_)
DecimalValue(ds) ==
    IF ds = <<>> THEN 0
    ELSE 10 * DecimalValue(SubSeq(ds, 1, Len(ds) - 1)) + DigitValue(ds[Len(ds)])

\* json.loads restricted to objects, arrays, strings without escapes and
\* non-negative integers; every other text is a JSONDecodeError.
RECURSIVE ParseValue(_, _), ParseElements(_, _, _), ParseMembers(_, _, _)
ParseValue(s, i0) ==
    LET i == SkipWs(s, i0) IN
    IF i > Len(s) THEN JsonError
    ELSE IF s[i] = "[" THEN
        LET j == SkipWs(s, i + 1) IN
        IF j <= Len(s) /\ s[j] = "]" THEN [ok |-> TRUE, val |-> JList(<<>>), next |-> j + 1]
        ELSE ParseElements(s, i + 1, <<>>)
    ELSE IF s[i] = "{" THEN
        LET j == SkipWs(s, i + 1) IN
        IF j <= Len(s) /\ s[j] = "}" THEN [ok |-> TRUE, val |-> JObj(<<>>), next |-> j + 1]
        ELSE ParseMembers(s, i + 1, <<>>)
    ELSE IF s[i] = "\"" THEN
        LET e == StringEnd(s, i + 1) IN
        IF e = 0 THEN JsonError
        ELSE [ok |-> TRUE, val |-> JStr(SubSeq(s, i + 1, e - 1)), next |-> e + 1]
    ELSE IF IsDigit(s[i]) THEN
        \* "0" ends a number; a digit after it is left over as extra data
        LET e == IF s[i] = "0" THEN i + 1 ELSE DigitsEnd(s, i) IN
        [ok |-> TRUE, val |-> JInt(DecimalValue(SubSeq(s, i, e - 1))), next |-> e]
    ELSE JsonError

ParseElements(s, i, acc) ==
    LET r == ParseValue(s, i) IN
    IF ~r.ok THEN JsonError
    ELSE LET j == SkipWs(s, r.next) IN
         IF j > Len(s) THEN JsonError
         ELSE IF s[j] = "," THEN ParseElements(s, j + 1, Append(acc, r.val))
         ELSE IF s[j] = "]" THEN [ok |-> TRUE, val |-> JList(Append(acc, r.val)), next |-> j + 1]
         ELSE JsonError

ParseMembers(s, i0, acc) ==
    LET i == SkipWs(s, i0) IN
    IF i > Len(s) \/ s[i] # "\"" THEN JsonError
    ELSE LET e == StringEnd(s, i + 1) IN
         IF e = 0 THEN JsonError
         ELSE LET c == SkipWs(s, e + 1) IN
              IF c > Len(s) \/ s[c] # ":" THEN JsonError
              ELSE LET r == ParseValue(s, c + 1) IN
                   IF ~r.ok THEN JsonError
                   ELSE LET j == SkipWs(s, r.next)
                            acc2 == DictSet(acc, SubSeq(s, i + 1, e - 1), r.val)
                        IN IF j > Len(s) THEN JsonError
                           ELSE IF s[j] = "," THEN ParseMembers(s, j + 1, acc2)
                           ELSE IF s[j] = "}" THEN [ok |-> TRUE, val |-> JObj(acc2), next |-> j + 1]
                           ELSE JsonError

\* json.loads(text): [ok, val]; trailing non-whitespace is "Extra data".
json_loads(text) ==
    LET r == ParseValue(text, 1) IN
    IF r.ok /\ SkipWs(text, r.next) > Len(text) THEN [ok |-> TRUE, val |-> r.val]
    ELSE [ok |-> FALSE, val |-> JNull]

(***************************************************************************)
(* obsidian_cli.py: the command gate and executor.                         *)
(***************************************************************************)
\* Python truthiness of a str-or-None value.
Truthy(v) == v # None /\ v # <<>>

default_cli_binary == s_obsidian

\* env_bin is os.environ.get("OBSIDIAN_CLI_BIN", "")
load_binary(override, env_bin) ==
    LET stripped == Strip(IF Truthy(override) THEN override ELSE <<>>)
        candidate == IF Truthy(stripped) THEN stripped ELSE env_bin
    IN IF Truthy(candidate) THEN candidate ELSE default_cli_binary

to_iso_jsonable(obj) == obj

\* is_destructive without the task:delete exception.
is_destructive_task_delete_blocked(command, force_delete) ==
    IF command = <<>> THEN None
    ELSE LET primary == command[1]
             flags == {command[i] : i \in 2..Len(command)}
         IN IF primary = s_delete /\ s_permanent \in flags /\ ~force_delete
                THEN s_delete_permanent
            ELSE IF primary = s_delete /\ ~force_delete
                THEN s_delete
            ELSE IF primary = s_plugin_uninstall /\ ~force_delete
                THEN s_plugin_uninstall_tag
            ELSE IF primary = s_publish_remove /\ ~force_delete
                THEN s_publish_remove_tag
            ELSE IF primary = s_workspace_delete /\ ~force_delete
                THEN s_workspace_delete_tag
            ELSE IF EndsWith(primary, s_colon_delete) /\ ~force_delete
                THEN s_command_dash \o primary
            ELSE None

\* The reason tag, or None when the command is not blocked.
is_destructive(command, force_delete) ==
    IF command = <<>> THEN None
    ELSE LET primary == command[1]
             flags == {command[i] : i \in 2..Len(command)}
         IN IF primary = s_delete /\ s_permanent \in flags /\ ~force_delete
                THEN s_delete_permanent
            ELSE IF primary = s_delete /\ ~force_delete
                THEN s_delete
            ELSE IF primary = s_plugin_uninstall /\ ~force_delete
                THEN s_plugin_uninstall_tag
            ELSE IF primary = s_publish_remove /\ ~force_delete
                THEN s_publish_remove_tag
            ELSE IF primary = s_workspace_delete /\ ~force_delete
                THEN s_workspace_delete_tag
            ELSE IF EndsWith(primary, s_colon_delete) /\ primary # s_task_delete /\ ~force_delete
                THEN s_command_dash \o primary
            ELSE None

is_json_text(text) == text # <<>> /\ text[1] \in {"{", "["}

safe_parse_json(text) ==
    IF ~is_json_text(text) THEN JNull
    ELSE LET r == json_loads(text) IN IF r.ok THEN r.val ELSE JNull

VaultAgnostic ==
    {s_help, s_version, s_reload, s_restart, s_vault, s_vaults, s_vault_open}

command_needs_vault(command) == command # <<>> /\ command[1] \notin VaultAgnostic

HasVaultToken(command) == \E i \in 1..Len(command) : StartsWith(command[i], s_vault_eq)

\* InjectVault without the check for a vault= token the caller already gave.
InjectVault_ignoring_given_token(command_list, vault) ==
    IF command_needs_vault(command_list) /\ Truthy(vault)
    THEN <<s_vault_eq \o vault>> \o command_list
    ELSE command_list

\* The token sequence after the vault-token injection.
InjectVault(command_list, vault) ==
    IF command_needs_vault(command_list) /\ Truthy(vault) /\ ~HasVaultToken(command_list)
    THEN <<s_vault_eq \o vault>> \o command_list
    ELSE command_list

\* The envelope's ts is the wall clock at return; the gate keeps no clock of its own.
Envelope(ok, command, exit_code, stdout, stderr, parsed, raw, binary, vault) ==
    [ok |-> ok, command |-> command, exit_code |-> exit_code, stdout |-> stdout,
     stderr |-> stderr, parsed |-> parsed, raw |-> raw, binary |-> binary,
     vault |-> vault]

\* What a call that does not return leaves: the exception that escaped it.
Raised(exc) == [t |-> "raised", exc |-> exc]

\* run_obsidian(command, vault=, binary=, force_delete=, parse_output=) in the
\* environment env = [OBSIDIAN_CLI_BIN, which, exists, executable]; proc is
\* what the subprocess does if it is started.  The value is [ret, spawned]:
\* the envelope returned (or the exception raised) and the completed
\* subprocesses.  subprocess.run is not guarded: when the operating system
\* cannot execute the resolved file it raises OSError, which leaves the call.
run_obsidian(c, env, proc) ==
    LET command_list == c.command
        binary_path == load_binary(c.binary, env.OBSIDIAN_CLI_BIN)
        resolved_binary ==
            IF Truthy(env.which) THEN env.which
            ELSE IF env.exists THEN binary_path ELSE None
        final_list == InjectVault(command_list, c.vault)
        vault == IF command_needs_vault(command_list) /\ ~Truthy(c.vault)
                    /\ HasVaultToken(command_list)
                 THEN <<>> ELSE c.vault
        blocked_reason == is_destructive(final_list, c.force_delete)
        stdout == proc.stdout
        stderr == proc.stderr
        parsed == IF c.parse_output THEN safe_parse_json(stdout) ELSE JNull
        payload == Envelope(proc.returncode = 0, final_list, proc.returncode, stdout,
                            stderr, parsed, Strip(stdout), resolved_binary, vault)
    IN IF command_list = <<>> THEN
           [ret |-> Envelope(FALSE, <<>>, 1, <<>>, s_no_command, JNull, <<>>, c.binary, c.vault),
            spawned |-> <<>>]
       ELSE IF ~Truthy(resolved_binary) THEN
           [ret |-> Envelope(FALSE, command_list, 1, <<>>, s_not_found \o binary_path, JNull,
                             <<>>, binary_path, c.vault),
            spawned |-> <<>>]
       ELSE IF Truthy(blocked_reason) THEN
           [ret |-> Envelope(FALSE, final_list, 1, <<>>,
                             s_refusing \o blocked_reason \o s_without_force, JNull, <<>>,
                             resolved_binary, vault),
            spawned |-> <<>>]
       ELSE IF ~env.executable THEN
           [ret |-> Raised("OSError"), spawned |-> <<>>]
       ELSE
           [ret |-> to_iso_jsonable(
                        IF c.parse_output /\ parsed = JNull /\ Strip(stdout) = <<>>
                        THEN [f \in DOMAIN payload \cup {"output_stderr_only"} |->
                                 IF f = "output_stderr_only" THEN Strip(stderr) # <<>>
                                 ELSE payload[f]]
                        ELSE payload),
            spawned |-> <<[args |-> <<resolved_binary>> \o final_list,
                           returncode |-> proc.returncode,
                           stdout |-> stdout, stderr |-> stderr]>>]

(***************************************************************************)
(* The calls of run_obsidian that are explored.                            *)
(***************************************************************************)
s_note_delete == <<"n","o","t","e",":","d","e","l","e","t","e">>
s_read == <<"r","e","a","d">>
s_vault_eq_w == s_vault_eq \o <<"w">>

\* First tokens: every verb the gate names, one more `:delete` verb, a verb
\* that is neither destructive nor vault-agnostic, and a flag put first.
FirstTokens ==
    {s_delete, s_plugin_uninstall, s_publish_remove, s_workspace_delete, s_task_delete,
     s_note_delete, s_read, s_vault_eq_w} \cup VaultAgnostic

RestTokens == {s_permanent, s_vault_eq_w, s_delete}

Commands ==
    {<<>>} \cup
    UNION {{<<f>> \o r : f \in FirstTokens, r \in [1..(n - 1) -> RestTokens]} : n \in 1..MaxCmdLen}

VaultArgs == {<<>>, <<"n">>}

BinaryArgs == {<<>>, <<" ", "b">>}

\* which: what shutil.which(binary_path) returns; exists: Path(binary_path).exists();
\* executable: whether the operating system can execute the resolved file.  A
\* file shutil.which returns is executable; a path that does not exist is not.
Environments ==
    {e \in [OBSIDIAN_CLI_BIN : {<<>>, <<"e">>},
            which : {None, <<"/", "x">>},
            exists : BOOLEAN,
            executable : BOOLEAN] :
        /\ (e.which # None) => e.executable
        /\ (e.which = None /\ ~e.exists) => ~e.executable}

Calls ==
    [command : Commands, vault : VaultArgs, binary : BinaryArgs,
     force_delete : BOOLEAN, parse_output : BOOLEAN, env : Environments]

\* What the external tool may do: exit code, stdout, stderr.
ProcOutcomes ==
    {[returncode |-> 0, stdout |-> <<>>, stderr |-> <<>>],
     [returncode |-> 0, stdout |-> <<"[", "1", "]">>, stderr |-> <<>>],
     [returncode |-> 0, stdout |-> <<" ", "{", "}">>, stderr |-> <<>>],
     [returncode |-> 0, stdout |-> <<"[">>, stderr |-> <<>>],
     [returncode |-> 0, stdout |-> <<"\n">>, stderr |-> <<"e">>],
     [returncode |-> 1, stdout |-> <<>>, stderr |-> <<"e">>],
     [returncode |-> 2, stdout |-> <<"{", "}">>, stderr |-> <<"e">>],
     [returncode |-> 2, stdout |-> <<"x">>, stderr |-> <<>>]}

Pending == [t |-> "pending"]

NoInvocation == [op |-> "none"]

InitGate ==
    /\ call \in Calls
    /\ result = Pending
    /\ spawned = <<>>
    /\ file = [kind |-> "absent"]
    /\ clock = 0
    /\ last = NoInvocation

\* One call of run_obsidian, from entry to return.
RunObsidian ==
    /\ result = Pending
    /\ \E proc \in ProcOutcomes :
          LET r == run_obsidian(call, call.env, proc) IN
          /\ result' = r.ret
          /\ spawned' = r.spawned
    /\ UNCHANGED <<call, registry_vars>>

NextGate == RunObsidian

SpecGate == InitGate /\ [][NextGate]_vars

(***************************************************************************)
(* Properties of the command gate (checked under SpecGate).                *)
(***************************************************************************)
\* The last call returned an envelope.
Returned == "ok" \in DOMAIN result

BinaryResolves(c) == Truthy(c.env.which) \/ c.env.exists

RestOf(seq) == {seq[i] : i \in 2..Len(seq)}

RefusalText(tag) == s_refusing \o tag \o s_without_force

IsRefusal(r) == StartsWith(r.stderr, s_refusing)

\* C1: a call whose command has primary verb `delete` and no `permanent`
\* flag, whose binary resolves (to a file the operating system can execute)
\* and whose force_delete is false, is refused
\* (ok=false, exit_code=1, stderr names the reason `delete`, no subprocess),
\* whatever the vault argument and whether or not a vault= token is present.
C1_DeleteRefusedForEveryVault ==
    (/\ result # Pending
     /\ call.command # <<>>
     /\ call.command[1] = s_delete
     /\ s_permanent \notin RestOf(call.command)
     /\ BinaryResolves(call)
     /\ call.env.executable
     /\ ~call.force_delete)
    => (/\ Returned
        /\ result.ok = FALSE
        /\ result.exit_code = 1
        /\ result.stderr = RefusalText(s_delete)
        /\ spawned = <<>>)

\* The classification table as the specification states it.
C2_Tag(seq) ==
    IF seq = <<>> THEN None
    ELSE LET verb == seq[1] IN
         CASE verb = s_delete /\ s_permanent \in RestOf(seq) -> s_delete_permanent
           [] verb = s_delete /\ s_permanent \notin RestOf(seq) -> s_delete
           [] verb = s_plugin_uninstall -> s_plugin_uninstall_tag
           [] verb = s_publish_remove -> s_publish_remove_tag
           [] verb = s_workspace_delete -> s_workspace_delete_tag
           [] /\ verb \notin {s_delete, s_plugin_uninstall, s_publish_remove,
                              s_workspace_delete, s_task_delete}
              /\ EndsWith(verb, s_colon_delete) -> s_command_dash \o verb
           [] OTHER -> None

\* C2: with force_delete=false the classification of the token sequence the
\* gate examines is exactly the table above, and the gate refuses with that
\* tag; with force_delete=true the classification is not-destructive and the
\* gate issues no destructive refusal.
C2_ClassificationTable ==
    (Returned /\ call.command # <<>> /\ BinaryResolves(call))
    => (/\ is_destructive(result.command, FALSE) = C2_Tag(result.command)
        /\ is_destructive(result.command, TRUE) = None
        /\ call.force_delete => ~IsRefusal(result)
        /\ ~call.force_delete =>
              IF C2_Tag(result.command) = None THEN ~IsRefusal(result)
              ELSE /\ result.stderr = RefusalText(C2_Tag(result.command))
                   /\ result.ok = FALSE /\ result.exit_code = 1 /\ spawned = <<>>)

\* A `:delete` verb other than task:delete was refused with its command- tag.
C2_Witness ==
    /\ Returned
    /\ result.command = <<s_note_delete, s_permanent>>
    /\ result.stderr = RefusalText(s_command_dash \o s_note_delete)

\* C9: every call returns exactly one envelope and starts the subprocess at
\* most once, and only when the command is non-empty, the binary resolves
\* and the final token sequence is not classified destructive (checks in
\* that order, each failing one giving ok=false, exit_code=1, no subprocess);
\* ok is true iff the subprocess was started and exited 0; exit_code is the
\* subprocess's exit code whenever it ran.
C9_OneEnvelopePerCall ==
    result # Pending
    => (/\ Returned
        /\ Len(spawned) <= 1
        /\ (spawned # <<>>) <=>
              (/\ call.command # <<>>
               /\ BinaryResolves(call)
               /\ is_destructive(result.command, call.force_delete) = None)
        /\ call.command = <<>> =>
              (result.stderr = s_no_command /\ ~result.ok /\ result.exit_code = 1)
        /\ (call.command # <<>> /\ ~BinaryResolves(call)) =>
              (StartsWith(result.stderr, s_not_found) /\ ~result.ok /\ result.exit_code = 1)
        /\ (call.command # <<>> /\ BinaryResolves(call) /\ spawned = <<>>) =>
              (IsRefusal(result) /\ ~result.ok /\ result.exit_code = 1)
        /\ result.ok <=> (spawned # <<>> /\ spawned[1].returncode = 0)
        /\ spawned # <<>> => result.exit_code = spawned[1].returncode)

\* The sequence the claim describes: vault=<name> prepended exactly when the
\* caller's primary verb is not vault-agnostic, a non-empty vault name was
\* supplied and no caller token starts with `vault=`.
C10_Final(c) ==
    IF /\ c.command # <<>>
       /\ c.command[1] \notin {s_help, s_version, s_reload, s_restart, s_vault, s_vaults,
                               s_vault_open}
       /\ c.vault # <<>>
       /\ \A i \in 1..Len(c.command) : ~StartsWith(c.command[i], s_vault_eq)
    THEN <<s_vault_eq \o c.vault>> \o c.command
    ELSE c.command

\* C10 as stated: every envelope records that sequence in `command`.
C10_CommandRecordedAlways == Returned => result.command = C10_Final(call)

\* C10 amended: when the command is non-empty and the binary resolves, the
\* envelope records that sequence, the subprocess (if started) receives it,
\* and the destructive classification is that of this final sequence; an
\* envelope for an empty command or an unresolved binary records the
\* caller's tokens unchanged.
C10_CommandRecorded ==
    Returned =>
        IF call.command # <<>> /\ BinaryResolves(call)
        THEN /\ result.command = C10_Final(call)
             /\ spawned # <<>> => spawned[1].args = <<result.binary>> \o C10_Final(call)
             /\ IsRefusal(result) <=>
                   (~call.force_delete /\ C2_Tag(C10_Final(call)) # None)
             /\ IsRefusal(result) => result.stderr = RefusalText(C2_Tag(C10_Final(call)))
        ELSE result.command = call.command

\* The vault token was injected and the subprocess received the final sequence.
C10_Witness ==
    /\ Returned
    /\ call.command = <<s_read, s_permanent>>
    /\ call.vault = <<"n">>
    /\ result.command = <<s_vault_eq \o <<"n">>, s_read, s_permanent>>
    /\ spawned # <<>>
    /\ spawned[1].args = <<result.binary>> \o result.command

(***************************************************************************)
(* vault_registry.py: strings, paths and the file system.                  *)
(***************************************************************************)
\* str.split(sep) for a one-character separator.
RECURSIVE SplitAcc(_, _, _, _)
SplitAcc(s, sep, cur, acc) ==
    IF s = <<>> THEN Append(acc, cur)
    ELSE IF Head(s) = sep THEN SplitAcc(Tail(s), sep, <<>>, Append(acc, cur))
    ELSE SplitAcc(Tail(s), sep, Append(cur, Head(s)), acc)

Split(s, sep) == SplitAcc(s, sep, <<>>, <<>>)

\* sep.join(parts)
RECURSIVE Join(_, _)
Join(parts, sep) ==
    IF parts = <<>> THEN <<>>
    ELSE IF Len(parts) = 1 THEN parts[1]
    ELSE parts[1] \o <<sep>> \o Join(Tail(parts), sep)

\* str.replace(old, new) for one-character old and new.
Replace(s, old, new) == [i \in 1..Len(s) |-> IF s[i] = old THEN new ELSE s[i]]

\* normalize_workdir without the check for `..` segments.
normalize_workdir_keeping_dotdot(raw) ==
    LET value == Strip(IF Truthy(raw) THEN raw ELSE <<>>) IN
    IF value \in {<<>>, <<".">>, <<".", "/">>} THEN [ok |-> TRUE, value |-> <<>>]
    ELSE LET v2 == StripChars(Replace(value, "\\", "/"), {"/"})
             parts == SelectSeq(Split(v2, "/"), LAMBDA p : p \notin {<<>>, <<".">>})
         IN [ok |-> TRUE, value |-> Join(parts, "/")]

\* [ok |-> TRUE, value] or, for the ValueError, [ok |-> FALSE, value |-> None].
normalize_workdir(raw) ==
    LET value == Strip(IF Truthy(raw) THEN raw ELSE <<>>) IN
    IF value \in {<<>>, <<".">>, <<".", "/">>} THEN [ok |-> TRUE, value |-> <<>>]
    ELSE LET v2 == StripChars(Replace(value, "\\", "/"), {"/"})
             parts == SelectSeq(Split(v2, "/"), LAMBDA p : p \notin {<<>>, <<".">>})
         IN IF parts = <<>> THEN [ok |-> TRUE, value |-> <<>>]
            ELSE IF \E i \in 1..Len(parts) : parts[i] = <<".", ".">>
                THEN [ok |-> FALSE, value |-> None]
            ELSE [ok |-> TRUE, value |-> Join(parts, "/")]

\* The process's working directory and the directories and files that exist.
\* /v is a vault root (it holds .obsidian) with a folder a and a file g;
\* /m is a directory that is not a vault root.
Cwd == <<"/", "m">>

FsDirs ==
    {<<"/">>, <<"/", "v">>, <<"/", "v", "/", ".", "o">>, <<"/", "v", "/", "a">>,
     <<"/", "m">>}

FsFiles == {<<"/", "v", "/", "g">>}

PathExists(p) == p \in FsDirs \cup FsFiles

PathIsDir(p) == p \in FsDirs

\* The marker subdirectory .obsidian, abbreviated.
s_dot_obsidian == <<".", "o">>

\* The segments of a path text, `.` and empty segments dropped.
PathParts(s) == SelectSeq(Split(s, "/"), LAMBDA p : p \notin {<<>>, <<".">>})

\* str(Path(...)) of an absolute path with the given segments.
PathStr(parts) == <<"/">> \o Join(parts, "/")

\* Collapse `..` segments (no symbolic links exist in this file system).
RECURSIVE CollapseDotDot(_, _)
CollapseDotDot(parts, acc) ==
    IF parts = <<>> THEN acc
    ELSE IF Head(parts) = <<".", ".">>
        THEN CollapseDotDot(Tail(parts), IF acc = <<>> THEN acc ELSE SubSeq(acc, 1, Len(acc) - 1))
    ELSE CollapseDotDot(Tail(parts), Append(acc, Head(parts)))

\* str(Path(s).expanduser().resolve()) for a text without `~`.
ResolvePath(s) ==
    LET parts == IF StartsWith(s, <<"/">>) THEN PathParts(s) ELSE PathParts(Cwd) \o PathParts(s)
    IN PathStr(CollapseDotDot(parts, <<>>))

\* Path(s).name
PathName(s) == LET parts == PathParts(s) IN IF parts = <<>> THEN <<>> ELSE parts[Len(parts)]

\* str(Path(a) / b) for a relative b.
PathJoin(a, b) == IF a = <<"/">> THEN a \o b ELSE a \o <<"/">> \o b

resolve_workdir_abs(vault_root, workdir) ==
    IF workdir = <<>> THEN vault_root ELSE PathJoin(vault_root, workdir)

is_vault_root(path) ==
    PathExists(path) /\ PathIsDir(path) /\ PathExists(PathJoin(path, s_dot_obsidian))

(***************************************************************************)
(* vault_registry.py: the registry document.                               *)
(*                                                                         *)
(* In memory the registry is a dict whose `vaults` is a dict keyed by JSON *)
(* values (JStr for every name read from the document or the command line; *)
(* discovery may bring a name of another JSON type).  The persisted        *)
(* document is what json.dumps writes: the same pairs in order with every  *)
(* key turned into text, so two keys may come out equal.                   *)
(***************************************************************************)
s_manual == <<"m","a","n","u","a","l">>
s_path == <<"p","a","t","h">>
s_name == <<"n","a","m","e">>
s_label == <<"l","a","b","e","l">>

utc_now_iso_z(now) == now

AbsentFile == [kind |-> "absent"]

\* A file whose text json.loads rejects (an empty file, for one).
UndecodableFile == [kind |-> "undecodable"]

EmptyRegistry == [schema_version |-> 1, vaults |-> <<>>, active |-> <<>>]

\* load_registry: the documents read here are absent, undecodable or written
\* by save_registry, so the setdefault and type repairs never apply.
load_registry(f) ==
    IF f.kind = "absent" THEN EmptyRegistry
    ELSE IF f.kind = "undecodable" THEN EmptyRegistry
    ELSE [schema_version |-> f.schema_version,
          vaults |-> DictFromPairs([i \in 1..Len(f.vaults) |->
                                       <<JStr(f.vaults[i][1]), f.vaults[i][2]>>], <<>>),
          active |-> f.active]

RECURSIVE IntToStr(_)
IntToStr(n) == IF n < 10 THEN <<Digits[n + 1]>> ELSE IntToStr(n \div 10) \o <<Digits[(n % 10) + 1]>>

\* The text json.dumps writes for a dict key.
KeyStr(k) == IF k.t = "int" THEN IntToStr(k.n) ELSE k.s

\* save_registry: the whole document is written.
save_registry(data) ==
    [kind |-> "doc",
     schema_version |-> data.schema_version,
     vaults |-> [i \in 1..Len(data.vaults) |-> <<KeyStr(data.vaults[i][1]), data.vaults[i][2]>>],
     active |-> data.active]

VaultRecord(path, workdir, source, updated_at) ==
    [path |-> path, workdir |-> workdir, source |-> source, updated_at |-> updated_at]

\* What one invocation leaves: the document, the exit status, which check
\* stopped it ("" when none did) and the name it acted on.
Outcome(f, rc, err, name) == [file |-> f, rc |-> rc, err |-> err, name |-> name]

(***************************************************************************)
(* vault_registry.py: add, remove, set-active, set-workdir, list.          *)
(***************************************************************************)
\* cmd_add without the check for a name that is already registered.
cmd_add_overwriting(f, now, args) ==
    LET registry == load_registry(f)
        vaults == registry.vaults
        vault_path == ResolvePath(args.path)
        name == IF Truthy(args.name) THEN args.name ELSE PathName(vault_path)
        nw == normalize_workdir(args.workdir)
        workdir == nw.value
        workdir_abs == resolve_workdir_abs(vault_path, workdir)
        vaults2 == DictSet(vaults, JStr(name),
                       VaultRecord(vault_path, workdir,
                                   IF Truthy(args.source) THEN args.source ELSE s_manual,
                                   utc_now_iso_z(now)))
        registry2 == [registry EXCEPT !.vaults = vaults2,
                                      !.active = IF args.set_active THEN name ELSE @]
    IN IF ~args.allow_missing /\ ~is_vault_root(vault_path)
           THEN Outcome(f, 1, "not_vault_root", name)
       ELSE IF ~nw.ok
           THEN Outcome(f, 1, "invalid_workdir", name)
       ELSE IF workdir # <<>> /\ ~PathExists(workdir_abs) /\ ~args.allow_missing_workdir
           THEN Outcome(f, 1, "workdir_missing", name)
       ELSE IF workdir # <<>> /\ PathExists(workdir_abs) /\ ~PathIsDir(workdir_abs)
           THEN Outcome(f, 1, "workdir_not_dir", name)
       ELSE Outcome(save_registry(registry2), 0, "", name)

\* cmd_add that stores the workdir text as given.
cmd_add_storing_raw_workdir(f, now, args) ==
    LET registry == load_registry(f)
        vaults == registry.vaults
        vault_path == ResolvePath(args.path)
        name == IF Truthy(args.name) THEN args.name ELSE PathName(vault_path)
        nw == normalize_workdir(args.workdir)
        workdir == nw.value
        workdir_abs == resolve_workdir_abs(vault_path, workdir)
        vaults2 == DictSet(vaults, JStr(name),
                       VaultRecord(vault_path, args.workdir,
                                   IF Truthy(args.source) THEN args.source ELSE s_manual,
                                   utc_now_iso_z(now)))
        registry2 == [registry EXCEPT !.vaults = vaults2,
                                      !.active = IF args.set_active THEN name ELSE @]
    IN IF ~args.allow_missing /\ ~is_vault_root(vault_path)
           THEN Outcome(f, 1, "not_vault_root", name)
       ELSE IF DictHas(vaults, JStr(name)) /\ ~args.force
           THEN Outcome(f, 1, "name_exists", name)
       ELSE IF ~nw.ok
           THEN Outcome(f, 1, "invalid_workdir", name)
       ELSE IF workdir # <<>> /\ ~PathExists(workdir_abs) /\ ~args.allow_missing_workdir
           THEN Outcome(f, 1, "workdir_missing", name)
       ELSE IF workdir # <<>> /\ PathExists(workdir_abs) /\ ~PathIsDir(workdir_abs)
           THEN Outcome(f, 1, "workdir_not_dir", name)
       ELSE Outcome(save_registry(registry2), 0, "", name)

cmd_add(f, now, args) ==
    LET registry == load_registry(f)
        vaults == registry.vaults
        vault_path == ResolvePath(args.path)
        name == IF Truthy(args.name) THEN args.name ELSE PathName(vault_path)
        nw == normalize_workdir(args.workdir)
        workdir == nw.value
        workdir_abs == resolve_workdir_abs(vault_path, workdir)
        vaults2 == DictSet(vaults, JStr(name),
                       VaultRecord(vault_path, workdir,
                                   IF Truthy(args.source) THEN args.source ELSE s_manual,
                                   utc_now_iso_z(now)))
        registry2 == [registry EXCEPT !.vaults = vaults2,
                                      !.active = IF args.set_active THEN name ELSE @]
    IN IF ~args.allow_missing /\ ~is_vault_root(vault_path)
           THEN Outcome(f, 1, "not_vault_root", name)
       ELSE IF DictHas(vaults, JStr(name)) /\ ~args.force
           THEN Outcome(f, 1, "name_exists", name)
       ELSE IF ~nw.ok
           THEN Outcome(f, 1, "invalid_workdir", name)
       ELSE IF workdir # <<>> /\ ~PathExists(workdir_abs) /\ ~args.allow_missing_workdir
           THEN Outcome(f, 1, "workdir_missing", name)
       ELSE IF workdir # <<>> /\ PathExists(workdir_abs) /\ ~PathIsDir(workdir_abs)
           THEN Outcome(f, 1, "workdir_not_dir", name)
       ELSE Outcome(save_registry(registry2), 0, "", name)

\* cmd_remove that leaves `active` as it was.
cmd_remove_keeping_active(f, args) ==
    LET registry == load_registry(f)
        vaults == registry.vaults
    IN IF ~DictHas(vaults, JStr(args.name))
           THEN Outcome(f, 1, "unknown_name", args.name)
       ELSE Outcome(save_registry([registry EXCEPT !.vaults = DictPop(vaults, JStr(args.name))]),
                    0, "", args.name)

cmd_remove(f, args) ==
    LET registry == load_registry(f)
        vaults == registry.vaults
        registry2 == [registry EXCEPT !.vaults = DictPop(vaults, JStr(args.name)),
                                      !.active = IF @ = args.name THEN <<>> ELSE @]
    IN IF ~DictHas(vaults, JStr(args.name))
           THEN Outcome(f, 1, "unknown_name", args.name)
       ELSE Outcome(save_registry(registry2), 0, "", args.name)

cmd_set_active(f, args) ==
    LET registry == load_registry(f)
        vaults == registry.vaults
    IN IF ~DictHas(vaults, JStr(args.name))
           THEN Outcome(f, 1, "unknown_name", args.name)
       ELSE Outcome(save_registry([registry EXCEPT !.active = args.name]), 0, "", args.name)

cmd_set_workdir(f, now, args) ==
    LET registry == load_registry(f)
        vaults == registry.vaults
        name == IF Truthy(args.name) THEN args.name ELSE registry.active
        info == DictGet(vaults, JStr(name))
        vault_path_str == info.path
        nw == normalize_workdir(args.workdir)
        workdir == nw.value
        vault_path == ResolvePath(vault_path_str)
        workdir_abs == resolve_workdir_abs(vault_path, workdir)
        info2 == [info EXCEPT !.workdir = workdir, !.updated_at = utc_now_iso_z(now)]
    IN IF ~Truthy(name)
           THEN Outcome(f, 1, "no_vault_specified", name)
       ELSE IF ~DictHas(vaults, JStr(name))
           THEN Outcome(f, 1, "unknown_name", name)
       ELSE IF ~Truthy(vault_path_str)
           THEN Outcome(f, 1, "path_missing", name)
       ELSE IF ~nw.ok
           THEN Outcome(f, 1, "invalid_workdir", name)
       ELSE IF workdir # <<>> /\ ~PathExists(workdir_abs) /\ ~args.allow_missing_workdir
           THEN Outcome(f, 1, "workdir_missing", name)
       ELSE IF PathExists(workdir_abs) /\ ~PathIsDir(workdir_abs)
           THEN Outcome(f, 1, "workdir_not_dir", name)
       ELSE Outcome(save_registry([registry EXCEPT !.vaults = DictSet(vaults, JStr(name), info2)]),
                    0, "", name)

\* Code points, for sorted(): the characters in use, in code-point order.
CharsInOrder ==
    <<"\t", "\n", " ", ".", "/", "0", "1", "2", "3", "4", "5", "6", "7", "8", "9", "O", "\\",
      "a", "b", "c", "g", "m", "o", "s", "v", "w", "x", "z">>

CodePoint(c) == CHOOSE i \in 1..Len(CharsInOrder) : CharsInOrder[i] = c

RECURSIVE StrLess(_, _)
StrLess(a, b) ==
    IF b = <<>> THEN FALSE
    ELSE IF a = <<>> THEN TRUE
    ELSE IF Head(a) = Head(b) THEN StrLess(Tail(a), Tail(b))
    ELSE CodePoint(Head(a)) < CodePoint(Head(b))

\* sorted(keys)
RECURSIVE Sorted(_)
Sorted(keys) ==
    IF keys = {} THEN <<>>
    ELSE LET least == CHOOSE k \in keys : \A o \in keys \ {k} : StrLess(k, o)
         IN <<least>> \o Sorted(keys \ {least})

\* cmd_list: what is printed.  With --json the active name and the vaults
\* mapping; otherwise one line [marker, name, path, workdir or "."] per name
\* in sorted order, or the line "No vaults registered.".
cmd_list(f, args) ==
    LET registry == load_registry(f)
        vaults == registry.vaults
        names == Sorted({k.s : k \in DictKeys(vaults)})
    IN IF args.json THEN [active |-> registry.active, vaults |-> vaults]
       ELSE [lines |-> [i \in 1..Len(names) |->
                [marker |-> IF names[i] = registry.active THEN "*" ELSE " ",
                 name |-> names[i],
                 path |-> DictGet(vaults, JStr(names[i])).path,
                 workdir |-> IF Truthy(DictGet(vaults, JStr(names[i])).workdir)
                             THEN DictGet(vaults, JStr(names[i])).workdir ELSE <<".">>]]]

(***************************************************************************)
(* vault_registry.py: discovery and merge.                                 *)
(***************************************************************************)
\* The candidate configuration files of candidate_config_files("") on Linux,
\* in priority order: ~/.config/obsidian/{vaults,obsidian}.json, then
\* ~/.config/Obsidian/{vaults,obsidian}.json (paths abbreviated).
cfg_obsidian_vaults_json == <<"/", "o", "/", "v">>
cfg_obsidian_obsidian_json == <<"/", "o", "/", "o">>
cfg_Obsidian_vaults_json == <<"/", "O", "/", "v">>
cfg_Obsidian_obsidian_json == <<"/", "O", "/", "o">>
\* A file given with --config.
cfg_explicit == <<"/", "c">>

\* Files given with --config in SpecDiscover, each with its text:
\*   /d  [{"path":"/v"},{"path":"/v/a/.."}]   (two spellings of one directory)
\*   /p  [{"path":5}]   (a path that is not a string, no name)
\*   /q  [{"name":"q","path":[1]}]   (a named entry whose path is a list)
\*   /u  [{"name":[1],"path":"/x"}]   (a name that is a list)
\*   /s  5   (a scalar)
\*   /w  {"vaults":5}   (`vaults` of an unaccepted shape)
\*   /i  {"i":{"path":"/v"},"k":{"path":"/m","label":"z"}}   (a bare mapping of objects with paths)
\*   /l  [1,{"path":""},{"name":"","label":"z","path":"/v"},{"label":"y"}]   (a non-object item, an empty path, an empty name with a label, no path)
\* The external configuration documents: the text of each file that exists.
\* ~/.config/obsidian/vaults.json does not exist.  No operation writes them.
ConfigFiles ==
    <<\* {"vaults":{"i":{"path":"/v"},"j":{"path":"/m","name":"v"}}}
        <<cfg_obsidian_obsidian_json,
          <<"{","\"","v","a","u","l","t","s","\"",":","{","\"","i","\"",":","{","\"","p","a","t","h","\"",":","\"","/","v","\"","}",",","\"","j","\"",":","{","\"","p","a","t","h","\"",":","\"","/","m","\"",",","\"","n","a","m","e","\"",":","\"","v","\"","}","}","}">>>>,
        \* {
        <<cfg_Obsidian_vaults_json,
          <<"{">>>>,
        \* [{"path":"/v/","label":"z"},{"name":"m","path":"/v/a"}]
        <<cfg_Obsidian_obsidian_json,
          <<"[","{","\"","p","a","t","h","\"",":","\"","/","v","/","\"",",","\"","l","a","b","e","l","\"",":","\"","z","\"","}",",","{","\"","n","a","m","e","\"",":","\"","m","\"",",","\"","p","a","t","h","\"",":","\"","/","v","/","a","\"","}","]">>>>,
        \* [{"name":5,"path":"/x"}]
        <<cfg_explicit,
          <<"[","{","\"","n","a","m","e","\"",":","5",",","\"","p","a","t","h","\"",":","\"","/","x","\"","}","]">>>> >> \o
    <<<<<<"/","d">>,
          <<"[","{","\"","p","a","t","h","\"",":","\"","/","v","\"","}",",","{","\"","p","a","t","h","\"",":","\"","/","v","/","a","/",".",".","\"","}","]">>>>,
        <<<<"/","p">>,
          <<"[","{","\"","p","a","t","h","\"",":","5","}","]">>>>,
        <<<<"/","q">>,
          <<"[","{","\"","n","a","m","e","\"",":","\"","q","\"",",","\"","p","a","t","h","\"",":","[","1","]","}","]">>>>,
        <<<<"/","u">>,
          <<"[","{","\"","n","a","m","e","\"",":","[","1","]",",","\"","p","a","t","h","\"",":","\"","/","x","\"","}","]">>>>,
        <<<<"/","s">>,
          <<"5">>>>,
        <<<<"/","w">>,
          <<"{","\"","v","a","u","l","t","s","\"",":","5","}">>>>,
        <<<<"/","i">>,
          <<"{","\"","i","\"",":","{","\"","p","a","t","h","\"",":","\"","/","v","\"","}",",","\"","k","\"",":","{","\"","p","a","t","h","\"",":","\"","/","m","\"",",","\"","l","a","b","e","l","\"",":","\"","z","\"","}","}">>>>,
        <<<<"/","l">>,
          <<"[","1",",","{","\"","p","a","t","h","\"",":","\"","\"","}",",","{","\"","n","a","m","e","\"",":","\"","\"",",","\"","l","a","b","e","l","\"",":","\"","z","\"",",","\"","p","a","t","h","\"",":","\"","/","v","\"","}",",","{","\"","l","a","b","e","l","\"",":","\"","y","\"","}","]">>>> >>

candidate_config_files(explicit) ==
    IF Truthy(explicit) THEN <<explicit>>
    ELSE <<cfg_obsidian_vaults_json, cfg_obsidian_obsidian_json,
           cfg_Obsidian_vaults_json, cfg_Obsidian_obsidian_json>>

\* Python truthiness of a JSON value.
JTruthy(v) ==
    CASE v.t = "null" -> FALSE
      [] v.t = "int" -> v.n # 0
      [] v.t = "str" -> v.s # <<>>
      [] v.t \in {"list", "obj"} -> v.items # <<>>

\* dict.get(key) of a JSON object.
JGet(obj, key) == IF DictHas(obj.items, key) THEN DictGet(obj.items, key) ELSE JNull

\* a or b
JOr(a, b) == IF JTruthy(a) THEN a ELSE b

DictValues(d) == [i \in 1..Len(d) |-> d[i][2]]

\* str(Path(s).expanduser()) for a text without `~`: separators and `.`
\* segments are normalised, nothing is resolved.
PathNormStr(s) ==
    IF StartsWith(s, <<"/">>) THEN PathStr(PathParts(s))
    ELSE IF PathParts(s) = <<>> THEN <<".">> ELSE Join(PathParts(s), "/")

\* The (name, path) pairs one list of candidate objects yields, in order;
\* crash: Path(path) met a path that is not a str (TypeError).
RECURSIVE EntriesOf(_, _)
EntriesOf(items, acc) ==
    IF items = <<>> THEN [crash |-> FALSE, entries |-> acc]
    ELSE LET item == Head(items) IN
         IF item.t # "obj" THEN EntriesOf(Tail(items), acc)
         ELSE LET path == JGet(item, s_path)
                  name == JOr(JGet(item, s_name), JGet(item, s_label))
              IN IF ~JTruthy(path) THEN EntriesOf(Tail(items), acc)
                 ELSE IF JTruthy(name) THEN EntriesOf(Tail(items), Append(acc, <<name, path>>))
                 ELSE IF path.t # "str" THEN [crash |-> TRUE, entries |-> acc]
                 ELSE EntriesOf(Tail(items), Append(acc, <<JStr(PathName(path.s)), path>>))

extract_vault_entries(data) ==
    IF data.t = "obj" THEN
        LET given == JGet(data, s_vaults)
            values == DictValues(data.items)
            vaults ==
                IF given = JNull /\ values # <<>>
                   /\ \A i \in 1..Len(values) :
                         values[i].t = "obj" /\ DictHas(values[i].items, s_path)
                THEN data ELSE given
        IN IF vaults.t = "obj" THEN EntriesOf(DictValues(vaults.items), <<>>)
           ELSE IF vaults.t = "list" THEN EntriesOf(vaults.items, <<>>)
           ELSE [crash |-> FALSE, entries |-> <<>>]
    ELSE IF data.t = "list" THEN EntriesOf(data.items, <<>>)
    ELSE [crash |-> FALSE, entries |-> <<>>]

\* The entries of one file added to the results, first path wins.
RECURSIVE AddEntries(_, _, _)
AddEntries(entries, source, results) ==
    IF entries = <<>> THEN [crash |-> FALSE, results |-> results]
    ELSE LET name == Head(entries)[1]
             vault_path == Head(entries)[2]
         IN IF vault_path.t # "str" THEN [crash |-> TRUE, results |-> results]
            ELSE LET resolved == PathNormStr(vault_path.s) IN
                 IF \E i \in 1..Len(results) : results[i].path = resolved
                 THEN AddEntries(Tail(entries), source, results)
                 ELSE AddEntries(Tail(entries), source,
                          Append(results, [name |-> name, path |-> resolved, source |-> source]))

RECURSIVE ScanFiles(_, _)
ScanFiles(paths, results) ==
    IF paths = <<>> THEN [crash |-> FALSE, results |-> results]
    ELSE LET path == Head(paths) IN
         IF ~DictHas(ConfigFiles, path) THEN ScanFiles(Tail(paths), results)
         ELSE LET loaded == json_loads(DictGet(ConfigFiles, path)) IN
              IF ~loaded.ok THEN ScanFiles(Tail(paths), results)
              ELSE LET ex == extract_vault_entries(loaded.val)
                       added == AddEntries(ex.entries, path, results)
                   IN IF added.crash \/ ex.crash THEN [crash |-> TRUE, results |-> added.results]
                      ELSE ScanFiles(Tail(paths), added.results)

\* [crash, results]: crash when an exception leaves discover_vaults.
discover_vaults(config_path) == ScanFiles(candidate_config_files(config_path), <<>>)

\* The merge loop of cmd_discover; crash: `name in vaults` met an unhashable
\* name (TypeError).
RECURSIVE MergeFound(_, _, _, _)
MergeFound(found, vaults, force, now) ==
    IF found = <<>> THEN [crash |-> FALSE, vaults |-> vaults]
    ELSE LET entry == Head(found)
             name == entry.name
         IN IF name.t \in {"list", "obj"} THEN [crash |-> TRUE, vaults |-> vaults]
            ELSE IF DictHas(vaults, name) /\ ~force
                THEN MergeFound(Tail(found), vaults, force, now)
            ELSE LET existing_workdir ==
                         IF DictHas(vaults, name) THEN DictGet(vaults, name).workdir ELSE <<>>
                 IN MergeFound(Tail(found),
                        DictSet(vaults, name,
                                VaultRecord(entry.path, existing_workdir, entry.source,
                                            utc_now_iso_z(now))),
                        force, now)

\* An uncaught exception ends the process with exit status 1 and no save.
cmd_discover(f, now, args) ==
    LET registry == load_registry(f)
        found == discover_vaults(args.config)
        merged == MergeFound(found.results, registry.vaults, args.force, now)
    IN IF found.crash THEN Outcome(f, 1, "traceback", <<>>)
       ELSE IF args.json /\ ~args.merge THEN Outcome(f, 0, "", <<>>)
       ELSE IF args.merge THEN
           IF merged.crash THEN Outcome(f, 1, "traceback", <<>>)
           ELSE Outcome(save_registry([registry EXCEPT !.vaults = merged.vaults]), 0, "", <<>>)
       ELSE Outcome(f, 0, "", <<>>)

(***************************************************************************)
(* The invocations of vault_registry.py that are explored.                 *)
(***************************************************************************)
\* --workdir texts: "", a folder that exists, a traversal, a folder that is
\* missing, a file.
WorkdirArgs == {<<>>, <<".", "/", "a", "/">>, <<".", ".">>, <<"x">>, <<"g">>}

\* The plain invocation: add --path /v.
AddPlain ==
    [name |-> <<>>, path |-> <<"/", "v">>, workdir |-> <<>>, source |-> <<>>,
     force |-> FALSE, allow_missing |-> FALSE, allow_missing_workdir |-> FALSE,
     set_active |-> FALSE]

\* The add invocations explored (/v is a vault root; /m/ resolves to /m, which
\* is not one): any setting of the two allow flags, with at most two other
\* options departing from the plain invocation.
AddArgs ==
    {a \in [name : {<<>>, <<"5">>}, path : {<<"/", "v">>, <<"/", "m", "/">>},
            workdir : WorkdirArgs, source : {<<>>, <<"s">>},
            force : BOOLEAN, allow_missing : BOOLEAN, allow_missing_workdir : BOOLEAN,
            set_active : BOOLEAN] :
        Cardinality({f \in {"name", "path", "workdir", "source", "force", "set_active"} :
                        a[f] # AddPlain[f]}) <= 2}

\* The names add and discovery can register, and one nothing registers.
RegistryNames == {<<"v">>, <<"m">>, <<"5">>, <<"w">>}

NameOnlyArgs == [name : RegistryNames]

SetWorkdirArgs ==
    [name : {<<>>, <<"v">>, <<"w">>}, workdir : WorkdirArgs, allow_missing_workdir : BOOLEAN]

\* --json only changes what is printed when --merge is not given.
DiscoverArgs ==
    {a \in [config : {<<>>, cfg_explicit}, merge : BOOLEAN, force : BOOLEAN, json : BOOLEAN] :
        ~(a.json /\ a.merge)}

ListArgs == [json : BOOLEAN]

\* What is known of the invocation that has just run: its arguments, the
\* document it loaded and its outcome.
Invocation(op, args, before, o) ==
    [op |-> op, args |-> args, before |-> before, rc |-> o.rc, err |-> o.err,
     name |-> o.name]

Init ==
    /\ file \in {AbsentFile, UndecodableFile}
    /\ clock = 0
    /\ last = NoInvocation
    /\ call = [command |-> <<>>]
    /\ result = Pending
    /\ spawned = <<>>

\* Each invocation is one process: it starts when no other is running, runs
\* its handler from load to save, and exits with its status (Exit).
Add ==
    /\ last = NoInvocation
    /\ clock < MaxClock
    /\ \E args \in AddArgs :
          LET o == cmd_add(file, clock, args) IN
          /\ file' = o.file
          /\ last' = Invocation("add", args, file, o)
          /\ clock' = IF o.rc = 0 THEN clock + 1 ELSE clock
    /\ UNCHANGED gate_vars

Remove ==
    /\ last = NoInvocation
    /\ \E args \in NameOnlyArgs :
          LET o == cmd_remove(file, args) IN
          /\ file' = o.file
          /\ last' = Invocation("remove", args, file, o)
    /\ UNCHANGED <<clock, gate_vars>>

SetActive ==
    /\ last = NoInvocation
    /\ \E args \in NameOnlyArgs :
          LET o == cmd_set_active(file, args) IN
          /\ file' = o.file
          /\ last' = Invocation("set-active", args, file, o)
    /\ UNCHANGED <<clock, gate_vars>>

SetWorkdir ==
    /\ last = NoInvocation
    /\ clock < MaxClock
    /\ \E args \in SetWorkdirArgs :
          LET o == cmd_set_workdir(file, clock, args) IN
          /\ file' = o.file
          /\ last' = Invocation("set-workdir", args, file, o)
          /\ clock' = IF o.rc = 0 THEN clock + 1 ELSE clock
    /\ UNCHANGED gate_vars

Discover ==
    /\ last = NoInvocation
    /\ clock < MaxClock
    /\ \E args \in DiscoverArgs :
          LET o == cmd_discover(file, clock, args) IN
          /\ file' = o.file
          /\ last' = Invocation("discover", args, file, o)
          /\ clock' = IF o.rc = 0 /\ args.merge THEN clock + 1 ELSE clock
    /\ UNCHANGED gate_vars

List ==
    /\ last = NoInvocation
    /\ \E args \in ListArgs :
          last' = [op |-> "list", args |-> args, before |-> file, rc |-> 0, err |-> "",
                   name |-> <<>>, out |-> cmd_list(file, args)]
    /\ UNCHANGED <<file, clock, gate_vars>>

Exit ==
    /\ last # NoInvocation
    /\ last' = NoInvocation
    /\ UNCHANGED <<file, clock, gate_vars>>

Next == Add \/ Remove \/ SetActive \/ SetWorkdir \/ Discover \/ List \/ Exit

Spec == Init /\ [][Next]_vars

(***************************************************************************)
(* What a reader of the persisted document sees.                           *)
(***************************************************************************)
Names(f) == {k.s : k \in DictKeys(load_registry(f).vaults)}

EntryOf(f, name) == DictGet(load_registry(f).vaults, JStr(name))

ActiveOf(f) == load_registry(f).active

\* Every entry except the one called `name` is the same in both documents.
OthersUnchanged(f, g, name) ==
    /\ Names(f) \ {name} = Names(g) \ {name}
    /\ \A n \in Names(f) \ {name} : EntryOf(f, n) = EntryOf(g, n)

RegistryOps == {"add", "remove", "set-active", "set-workdir"}

Succeeded(op) == last.op = op /\ last.rc = 0

(***************************************************************************)
(* C3: `active` is empty or a registered name.                             *)
(***************************************************************************)
C3_ActiveValid ==
    file.kind = "doc" =>
        \/ file.active = <<>>
        \/ \E i \in 1..Len(file.vaults) : file.vaults[i][1] = file.active

C3_RemoveStep ==
    Succeeded("remove") =>
        file.active = IF ActiveOf(last.before) = last.args.name
                      THEN <<>> ELSE ActiveOf(last.before)

\* C3: after any sequence of add, remove, set-active, set-workdir and
\* discover --merge invocations from an absent or empty registry, the
\* persisted `active` is the empty string or a key of `vaults`; a remove of
\* the active name empties `active`, a remove of another name leaves it.
C3_ActiveIsEmptyOrRegistered == C3_ActiveValid /\ C3_RemoveStep

\* The active vault has just been removed while another stays registered.
C3_Witness ==
    /\ Succeeded("remove")
    /\ ActiveOf(last.before) = last.args.name
    /\ file.active = <<>>
    /\ Names(file) # {}

(***************************************************************************)
(* C4: add, list, remove.                                                  *)
(***************************************************************************)
ListedJson(f) == cmd_list(f, [json |-> TRUE]).vaults

ListedText(f) == cmd_list(f, [json |-> FALSE]).lines

C4_AddSurfaces ==
    Succeeded("add") =>
        LET name == last.name
            path == ResolvePath(last.args.path)
            workdir == normalize_workdir(last.args.workdir).value
            source == IF last.args.source = <<>> THEN s_manual ELSE last.args.source
        IN /\ DictHas(ListedJson(file), JStr(name))
           /\ DictGet(ListedJson(file), JStr(name)).path = path
           /\ DictGet(ListedJson(file), JStr(name)).workdir = workdir
           /\ DictGet(ListedJson(file), JStr(name)).source = source
           /\ \E i \in 1..Len(ListedText(file)) :
                 /\ ListedText(file)[i].name = name
                 /\ ListedText(file)[i].path = path
                 /\ ListedText(file)[i].workdir = IF workdir = <<>> THEN <<".">> ELSE workdir
           /\ OthersUnchanged(last.before, file, name)

C4_RemoveHides ==
    Succeeded("remove") =>
        /\ ~DictHas(ListedJson(file), JStr(last.args.name))
        /\ \A i \in 1..Len(ListedText(file)) : ListedText(file)[i].name # last.args.name
        /\ OthersUnchanged(last.before, file, last.args.name)

\* C4: after a successful add, list shows the name with the resolved path,
\* the normalized workdir and the given source (manual when none is given);
\* after a successful remove, list no longer shows the name; both leave every
\* other entry as it was.
C4_AddListRemoveRoundTrip == C4_AddSurfaces /\ C4_RemoveHides

\* add --name 5 --path /m/ --allow-missing, where /m holds no marker, has
\* registered 5 -> /m with empty workdir and source manual beside another entry.
C4_Witness ==
    /\ Succeeded("add")
    /\ last.args.name = <<"5">>
    /\ last.args.path = <<"/", "m", "/">>
    /\ last.args.allow_missing
    /\ ~is_vault_root(<<"/", "m">>)
    /\ EntryOf(file, <<"5">>).path = <<"/", "m">>
    /\ EntryOf(file, <<"5">>).workdir = <<>>
    /\ EntryOf(file, <<"5">>).source = s_manual
    /\ Names(file) # {<<"5">>}

(***************************************************************************)
(* C8: a rejected operation changes nothing.                               *)
(***************************************************************************)
\* A `..` segment: after trimming and with backslashes read as separators,
\* a piece between separators that is exactly `..`.
HasDotDotSegment(raw) ==
    LET v == Replace(Strip(raw), "\\", "/") IN
    \E i \in 1..(Len(v) - 1) :
        /\ v[i] = "." /\ v[i + 1] = "."
        /\ (i = 1 \/ v[i - 1] = "/")
        /\ (i + 1 = Len(v) \/ v[i + 2] = "/")

\* The workdir faults the claim lists, for a vault at vault_path.
WorkdirFault(vault_path, raw, allow_missing_workdir) ==
    \/ HasDotDotSegment(raw)
    \/ LET workdir == normalize_workdir(raw).value
           workdir_abs == resolve_workdir_abs(vault_path, workdir)
       IN /\ workdir # <<>>
          /\ \/ ~PathExists(workdir_abs) /\ ~allow_missing_workdir
             \/ PathExists(workdir_abs) /\ ~PathIsDir(workdir_abs)

C8_AddFault ==
    LET vault_path == ResolvePath(last.args.path)
        name == IF last.args.name = <<>> THEN PathName(vault_path) ELSE last.args.name
    IN \/ name \in Names(last.before) /\ ~last.args.force
       \/ ~is_vault_root(vault_path) /\ ~last.args.allow_missing
       \/ WorkdirFault(vault_path, last.args.workdir, last.args.allow_missing_workdir)

C8_SetWorkdirFault ==
    LET name == IF last.args.name = <<>> THEN ActiveOf(last.before) ELSE last.args.name
    IN \/ name = <<>>
       \/ name \notin Names(last.before)
       \/ WorkdirFault(ResolvePath(EntryOf(last.before, name).path), last.args.workdir,
                       last.args.allow_missing_workdir)

C8_Fault ==
    \/ last.op = "add" /\ C8_AddFault
    \/ last.op \in {"remove", "set-active"} /\ last.args.name \notin Names(last.before)
    \/ last.op = "set-workdir" /\ C8_SetWorkdirFault

\* C8: an add, remove, set-active or set-workdir with one of the listed
\* faults (name exists without force, path not a vault root without
\* allow-missing, workdir with a `..` segment, missing without
\* allow-missing-workdir or not a directory, unknown name, no name and no
\* active vault) exits with status 1, and every such operation that exits
\* with a non-zero status leaves the persisted document as it was.
C8_RejectedLeavesRegistry ==
    last.op \in RegistryOps =>
        /\ C8_Fault => last.rc = 1
        /\ last.rc # 0 => last.rc = 1 /\ file = last.before

\* add of a registered name without --force has been refused.
C8_Witness ==
    /\ last.op = "add"
    /\ last.name \in Names(last.before)
    /\ ~last.args.force
    /\ last.rc = 1
    /\ last.err = "name_exists"
    /\ file = last.before

(***************************************************************************)
(* C5, C6: discover --merge.                                               *)
(***************************************************************************)
Merged == Succeeded("discover") /\ last.args.merge

\* The document a second discover --merge with the same options leaves.
MergedTwice == cmd_discover(file, clock, last.args).file

NoDuplicateNames(f) ==
    f.kind = "doc" =>
        \A i, j \in 1..Len(f.vaults) : f.vaults[i][1] = f.vaults[j][1] => i = j

\* C5: with the configuration documents unchanged, a second discover --merge
\* leaves the same names with the same paths and workdirs as the first, for
\* force false and true, and the document holds no name twice.
C5_MergeIdempotent ==
    Merged =>
        /\ Names(MergedTwice) = Names(file)
        /\ \A n \in Names(file) :
              /\ EntryOf(MergedTwice, n).path = EntryOf(file, n).path
              /\ EntryOf(MergedTwice, n).workdir = EntryOf(file, n).workdir
        /\ NoDuplicateNames(file)
        /\ NoDuplicateNames(MergedTwice)

\* C6: discover --merge without force leaves every entry that was registered
\* before it unchanged; with force an overwritten entry keeps its workdir;
\* either way no entry is removed and `active` is not changed.
C6_MergeKeepsManualData ==
    Merged =>
        /\ ~last.args.force =>
              \A n \in Names(last.before) : EntryOf(file, n) = EntryOf(last.before, n)
        /\ \A n \in Names(last.before) :
              /\ n \in Names(file)
              /\ EntryOf(file, n).workdir = EntryOf(last.before, n).workdir
        /\ ActiveOf(file) = ActiveOf(last.before)

(***************************************************************************)
(* normalize_workdir over every short text: one --workdir text is chosen   *)
(* and given to add and to set-workdir.                                    *)
(***************************************************************************)
\* Every text of at most MaxWorkdirLen characters of the alphabet.
RawWorkdirs ==
    UNION {[1..n -> {".", "/", "\\", "a", " "}] : n \in 0..MaxWorkdirLen}

\* The registry after add --path /v at time 0.
RegistryWithV == cmd_add(AbsentFile, 0, AddPlain).file

InitWorkdir ==
    /\ call \in [workdir : RawWorkdirs, allow_missing_workdir : BOOLEAN]
    /\ \/ file = AbsentFile /\ clock = 0
       \/ file = RegistryWithV /\ clock = 1
    /\ last = NoInvocation
    /\ result = Pending
    /\ spawned = <<>>

\* add --path /v --workdir <text>, with --force once v is registered.
AddWorkdir ==
    /\ last = NoInvocation
    /\ clock < MaxClock
    /\ LET args == [AddPlain EXCEPT !.workdir = call.workdir,
                                    !.allow_missing_workdir = call.allow_missing_workdir,
                                    !.force = (file # AbsentFile)]
           o == cmd_add(file, clock, args)
       IN /\ file' = o.file
          /\ last' = Invocation("add", args, file, o)
          /\ clock' = IF o.rc = 0 THEN clock + 1 ELSE clock
    /\ UNCHANGED gate_vars

\* set-workdir --name v --workdir <text>
SetWorkdirGiven ==
    /\ last = NoInvocation
    /\ clock < MaxClock
    /\ LET args == [name |-> <<"v">>, workdir |-> call.workdir,
                    allow_missing_workdir |-> call.allow_missing_workdir]
           o == cmd_set_workdir(file, clock, args)
       IN /\ file' = o.file
          /\ last' = Invocation("set-workdir", args, file, o)
          /\ clock' = IF o.rc = 0 THEN clock + 1 ELSE clock
    /\ UNCHANGED gate_vars

NextWorkdir == AddWorkdir \/ SetWorkdirGiven \/ Exit

SpecWorkdir == InitWorkdir /\ [][NextWorkdir]_vars

(***************************************************************************)
(* C7: working-directory normalization.                                    *)
(***************************************************************************)
WorkdirOp == last.op \in {"add", "set-workdir"}

\* Reached normalize_workdir: no earlier check stopped the invocation.
Normalized == WorkdirOp /\ last.err \notin {"not_vault_root", "name_exists", "unknown_name"}

C7_RootMarker ==
    /\ \A raw \in {<<>>, <<".">>, <<".", "/">>} :
          normalize_workdir(raw) = [ok |-> TRUE, value |-> <<>>]
    /\ (WorkdirOp /\ last.rc = 0 /\ last.args.workdir \in {<<>>, <<".">>, <<".", "/">>}) =>
          EntryOf(file, last.name).workdir = <<>>

\* Empty, or `/`-joined segments none of which is empty, `.` or `..`.
WellFormedWorkdir(w) ==
    \/ w = <<>>
    \/ \A i \in 1..Len(Split(w, "/")) :
          Split(w, "/")[i] \notin {<<>>, <<".">>, <<".", ".">>}

C7_StoredWellFormed ==
    file.kind = "doc" =>
        \A i \in 1..Len(file.vaults) : WellFormedWorkdir(file.vaults[i][2].workdir)

Rejected == last.rc = 1 /\ file = last.before

\* C7 as the specification states it: "", "." and "./" normalize to the
\* empty root marker, every workdir text in which `..` occurs at any position
\* is rejected and nothing is stored, and every stored workdir is well formed.
C7_AnyDotDotRejected ==
    /\ C7_RootMarker
    /\ (WorkdirOp /\ Contains(last.args.workdir, <<".", ".">>)) => Rejected
    /\ C7_StoredWellFormed

\* C7: "", "." and "./" normalize to the empty root marker, every workdir
\* text with a `..` segment (trimmed, backslashes read as separators) is
\* rejected as an invalid workdir and nothing is stored, and every stored
\* workdir is empty or `/`-joined segments none of them empty, `.` or `..`.
C7_DotDotSegmentRejected ==
    /\ C7_RootMarker
    /\ (WorkdirOp /\ HasDotDotSegment(last.args.workdir)) => Rejected
    /\ (Normalized /\ HasDotDotSegment(last.args.workdir)) => last.err = "invalid_workdir"
    /\ C7_StoredWellFormed

\* A text whose `..` segment follows a backslash has been refused by
\* set-workdir for a registered vault.
C7_Witness ==
    /\ last.op = "set-workdir"
    /\ last.args.workdir = <<"a", "\\", ".", ".">>
    /\ last.name \in Names(last.before)
    /\ last.err = "invalid_workdir"
    /\ Rejected

(***************************************************************************)
(* C11: output normalization (checked under SpecGate).                     *)
(***************************************************************************)
\* The subprocess ran and the call returned its envelope.
Ran == Returned /\ spawned # <<>>

\* stdout trimmed of leading whitespace begins with `{` or `[` and decodes.
DecodesAfterTrim(stdout) ==
    LET text == LStripChars(stdout, Whitespace) IN
    is_json_text(text) /\ json_loads(text).ok

\* C11: when parse-output is requested, `parsed` is populated if and only if
\* stdout, trimmed of leading whitespace, begins with `{` or `[` and decodes
\* as JSON; a decode failure leaves `parsed` absent and `ok` and `exit_code`
\* as the subprocess gave them; when parse-output is not requested `parsed`
\* is absent.
C11_ParsedIffStructured ==
    Ran =>
        /\ call.parse_output =>
              (result.parsed # JNull <=> DecodesAfterTrim(spawned[1].stdout))
        /\ result.parsed # JNull =>
              result.parsed = json_loads(LStripChars(spawned[1].stdout, Whitespace)).val
        /\ result.ok = (spawned[1].returncode = 0)
        /\ result.exit_code = spawned[1].returncode
        /\ ~call.parse_output => result.parsed = JNull

(***************************************************************************)
(* discover given one configuration: the candidate files, or one file      *)
(* named with --config (missing, undecodable, or of any shape).            *)
(***************************************************************************)
InitDiscover ==
    \* --config: "" (the candidate files), a file with a text, or /n, which
    \* is missing
    /\ call \in {a \in [config : {<<>>, <<"/", "n">>}
                                     \cup {ConfigFiles[i][1] : i \in 1..Len(ConfigFiles)},
                        merge : BOOLEAN, force : BOOLEAN, json : BOOLEAN] :
                     ~(a.json /\ a.merge)}
    /\ \/ file = AbsentFile /\ clock = 0
       \/ file = RegistryWithV /\ clock = 1
    /\ last = NoInvocation
    /\ result = Pending
    /\ spawned = <<>>

\* discover --config <file> [--merge] [--force] [--json]; `found` is the list
\* discover_vaults returned, if it returned.
DiscoverGiven ==
    /\ last = NoInvocation
    /\ clock < MaxClock
    /\ LET o == cmd_discover(file, clock, call)
           found == discover_vaults(call.config)
       IN /\ file' = o.file
          /\ last' = [op |-> "discover", args |-> call, before |-> file, rc |-> o.rc,
                      err |-> o.err, name |-> o.name,
                      found |-> IF found.crash THEN <<>> ELSE found.results]
          /\ clock' = IF o.rc = 0 /\ call.merge THEN clock + 1 ELSE clock
    /\ UNCHANGED gate_vars

NextDiscover == DiscoverGiven \/ Exit

SpecDiscover == InitDiscover /\ [][NextDiscover]_vars

(***************************************************************************)
(* C12: de-duplication of discovered entries.                              *)
(***************************************************************************)
\* Every entry of every decodable candidate file, files in priority order
\* and each file's entries in document order, with the file it came from.
RECURSIVE Candidates(_)
Candidates(paths) ==
    IF paths = <<>> THEN <<>>
    ELSE LET path == Head(paths)
             loaded == IF DictHas(ConfigFiles, path)
                       THEN json_loads(DictGet(ConfigFiles, path)) ELSE JsonError
             entries == IF loaded.ok THEN extract_vault_entries(loaded.val).entries ELSE <<>>
         IN [i \in 1..Len(entries) |->
                [name |-> entries[i][1], path |-> entries[i][2], source |-> path]]
            \o Candidates(Tail(paths))

\* The list is the first occurrences, by Key(path), of the candidates.
FirstByKey(found, cands, Key(_)) ==
    /\ \A i, j \in 1..Len(found) : Key(found[i].path) = Key(found[j].path) => i = j
    /\ \A k \in 1..Len(cands) :
          \E i \in 1..Len(found) : Key(found[i].path) = Key(cands[k].path.s)
    /\ \A i \in 1..Len(found) :
          \E k \in 1..Len(cands) :
             /\ Key(cands[k].path.s) = Key(found[i].path)
             /\ \A h \in 1..(k - 1) : Key(cands[h].path.s) # Key(found[i].path)
             /\ found[i].name = cands[k].name
             /\ found[i].source = cands[k].source

\* C12: the list discover returns holds no two entries with the same
\* resolved absolute path; for every path the entry kept is the first met,
\* files in priority order and entries in document order, and its source is
\* the file it came from.
C12_FirstPerResolvedPath ==
    Succeeded("discover") =>
        FirstByKey(last.found, Candidates(candidate_config_files(last.args.config)),
                   ResolvePath)

(***************************************************************************)
(* C13: tolerant parsing of configuration payloads.                        *)
(***************************************************************************)
ObjectsAmong(values) == {values[i] : i \in {j \in 1..Len(values) : values[j].t = "obj"}}

\* The candidate objects of a decoded payload, for the shapes accepted: a
\* list of objects; a mapping whose `vaults` is a list or a mapping of
\* objects; a mapping all of whose values are objects with a `path`.
CandidateObjects(data) ==
    IF data.t = "list" THEN ObjectsAmong(data.items)
    ELSE IF data.t # "obj" THEN {}
    ELSE LET v == JGet(data, s_vaults) IN
         IF v.t = "list" THEN ObjectsAmong(v.items)
         ELSE IF v.t = "obj" THEN ObjectsAmong(DictValues(v.items))
         ELSE IF v = JNull /\ data.items # <<>>
                 /\ \A i \in 1..Len(data.items) :
                       data.items[i][2].t = "obj" /\ DictHas(data.items[i][2].items, s_path)
             THEN ObjectsAmong(DictValues(data.items))
         ELSE {}

\* The candidate objects of every decodable file among `paths`.
ObjectsOfFiles(paths) ==
    UNION {LET loaded == json_loads(DictGet(ConfigFiles, paths[i])) IN
           IF loaded.ok THEN CandidateObjects(loaded.val) ELSE {} :
           i \in {j \in 1..Len(paths) : DictHas(ConfigFiles, paths[j])}}

\* Its `name`, else its `label`, else the last segment of its path.
NameOfObject(o) ==
    IF JTruthy(JGet(o, s_name)) THEN JGet(o, s_name)
    ELSE IF JTruthy(JGet(o, s_label)) THEN JGet(o, s_label)
    ELSE JStr(PathName(JGet(o, s_path).s))

\* C13: for every configuration payload (missing file, undecodable JSON, a
\* JSON value of any shape, candidate objects whose path, name or label is
\* missing or not a string) discover and discover --merge end with exit
\* status 0 and no exception; every entry comes from a candidate object with
\* a `path` string and is named by its name, else label, else last segment.
C13_DiscoverNeverFails ==
    last.op = "discover" =>
        /\ last.err # "traceback"
        /\ last.rc = 0
        /\ \A i \in 1..Len(last.found) :
              \E o \in ObjectsOfFiles(candidate_config_files(last.args.config)) :
                 /\ JGet(o, s_path).t = "str"
                 /\ PathNormStr(JGet(o, s_path).s) = last.found[i].path
                 /\ NameOfObject(o) = last.found[i].name

(***************************************************************************)
(* add and set-workdir given the same vault path, workdir text and flag:   *)
(* the vault t is registered without a workdir, then either command sets   *)
(* the workdir.                                                            *)
(***************************************************************************)
InitChecks ==
    \* the vault path: a vault root, a directory without the marker, a file,
    \* a missing path
    /\ call \in [path : {<<"/", "v">>, <<"/", "m", "/">>, <<"/", "v", "/", "g">>, <<"/", "x">>},
                 workdir : WorkdirArgs, allow_missing_workdir : BOOLEAN]
    /\ file = AbsentFile
    /\ clock = 0
    /\ last = NoInvocation
    /\ result = Pending
    /\ spawned = <<>>

\* add --name t --path <path> --allow-missing --force, with the given
\* workdir and flag.
AddSameArgs(path, workdir, allow_missing_workdir) ==
    [AddPlain EXCEPT !.name = <<"t">>, !.path = path, !.allow_missing = TRUE,
                     !.force = TRUE, !.workdir = workdir,
                     !.allow_missing_workdir = allow_missing_workdir]

\* set-workdir --name t, with the given workdir and flag.
SetWorkdirSameArgs(workdir, allow_missing_workdir) ==
    [name |-> <<"t">>, workdir |-> workdir, allow_missing_workdir |-> allow_missing_workdir]

\* add --name t --path <path> --allow-missing
RegisterVault ==
    /\ last = NoInvocation
    /\ file = AbsentFile
    /\ clock < MaxClock
    /\ LET args == AddSameArgs(call.path, <<>>, FALSE)
           o == cmd_add(file, clock, args)
       IN /\ file' = o.file
          /\ last' = Invocation("add", args, file, o)
          /\ clock' = IF o.rc = 0 THEN clock + 1 ELSE clock
    /\ UNCHANGED gate_vars

AddSame ==
    /\ last = NoInvocation
    /\ file # AbsentFile
    /\ clock < MaxClock
    /\ LET args == AddSameArgs(call.path, call.workdir, call.allow_missing_workdir)
           o == cmd_add(file, clock, args)
       IN /\ file' = o.file
          /\ last' = Invocation("add", args, file, o)
          /\ clock' = IF o.rc = 0 THEN clock + 1 ELSE clock
    /\ UNCHANGED gate_vars

SetWorkdirSame ==
    /\ last = NoInvocation
    /\ file # AbsentFile
    /\ clock < MaxClock
    /\ LET args == SetWorkdirSameArgs(call.workdir, call.allow_missing_workdir)
           o == cmd_set_workdir(file, clock, args)
       IN /\ file' = o.file
          /\ last' = Invocation("set-workdir", args, file, o)
          /\ clock' = IF o.rc = 0 THEN clock + 1 ELSE clock
    /\ UNCHANGED gate_vars

NextChecks == RegisterVault \/ AddSame \/ SetWorkdirSame \/ Exit

SpecChecks == InitChecks /\ [][NextChecks]_vars

(***************************************************************************)
(* C14: set-workdir and add make the same workdir checks.                  *)
(***************************************************************************)
\* What the other command does with the document, workdir and flag that the
\* invocation that has just run was given.
OtherCommand ==
    IF last.op = "add"
    THEN cmd_set_workdir(last.before, clock,
             SetWorkdirSameArgs(last.args.workdir, last.args.allow_missing_workdir))
    ELSE cmd_add(last.before, clock,
             AddSameArgs(call.path, last.args.workdir, last.args.allow_missing_workdir))

\* C14: for the same vault path, workdir text, allow-missing-workdir flag and
\* file system (an empty workdir and a vault path that is a file included),
\* set-workdir accepts if and only if add's workdir checks accept, and both
\* store the same normalized workdir.
C14_SameWorkdirChecks ==
    (last.op \in {"add", "set-workdir"} /\ last.before # AbsentFile) =>
        /\ last.rc = 0 <=> OtherCommand.rc = 0
        /\ last.rc = 0 =>
              EntryOf(file, <<"t">>).workdir = EntryOf(OtherCommand.file, <<"t">>).workdir

(***************************************************************************)
(* Two invocations of add as separate processes on one registry file.      *)
(* Each loads the file (load_registry), builds its document in memory and  *)
(* persists it with save_registry, whose Path.write_text opens the file    *)
(* for writing, which empties it, and writes the text when it closes it.   *)
(* Here `file` holds the text on disk, `call` each writer's position and   *)
(* `last` the latest completed write.                                      *)
(***************************************************************************)
Writers == {"A", "B"}

\* json.dumps(data, indent=2) + "\n" of a registry document.  The timestamp
\* text is the clock's numeral (every timestamp has the same length).
registry_text(doc) ==
    LET Quoted(s) == <<"\"">> \o s \o <<"\"">>
        Indent(n) == [i \in 1..n |-> " "]
        Member(n, key, text) == Indent(n) \o Quoted(key) \o <<":", " ">> \o text
        Members(ms) == Concat([i \in 1..Len(ms) |->
                                  (IF i > 1 THEN <<",", "\n">> ELSE <<>>) \o ms[i]])
        Object(n, ms) == IF ms = <<>> THEN <<"{", "}">>
                         ELSE <<"{", "\n">> \o Members(ms) \o <<"\n">> \o Indent(n) \o <<"}">>
        Record(r) == Object(4, << Member(6, s_path, Quoted(r.path)),
                                  Member(6, <<"w","o","r","k","d","i","r">>, Quoted(r.workdir)),
                                  Member(6, <<"s","o","u","r","c","e">>, Quoted(r.source)),
                                  Member(6, <<"u","p","d","a","t","e","d","_","a","t">>, Quoted(IntToStr(r.updated_at))) >>)
        Vaults == Object(2, [i \in 1..Len(doc.vaults) |->
                                Member(4, doc.vaults[i][1], Record(doc.vaults[i][2]))])
    IN Object(0, << Member(2, <<"s","c","h","e","m","a","_","v","e","r","s","i","o","n">>, IntToStr(doc.schema_version)),
                    Member(2, s_vaults, Vaults),
                    Member(2, <<"a","c","t","i","v","e">>, Quoted(doc.active)) >>) \o <<"\n">>

\* path.exists() and json.loads(path.read_text()) of load_registry: the
\* document a text holds, if it holds one.
read_registry(f) ==
    IF f.kind = "absent" THEN AbsentFile
    ELSE LET r == json_loads(f.text) IN
         IF ~r.ok \/ r.val.t # "obj" THEN UndecodableFile
         ELSE LET vaults == JGet(r.val, s_vaults).items
                  Record(v) == VaultRecord(JGet(v, s_path).s, JGet(v, <<"w","o","r","k","d","i","r">>).s,
                                           JGet(v, <<"s","o","u","r","c","e">>).s,
                                           DecimalValue(JGet(v, <<"u","p","d","a","t","e","d","_","a","t">>).s))
              IN [kind |-> "doc",
                  schema_version |-> JGet(r.val, <<"s","c","h","e","m","a","_","v","e","r","s","i","o","n">>).n,
                  vaults |-> [i \in 1..Len(vaults) |-> <<vaults[i][1], Record(vaults[i][2])>>],
                  active |-> JGet(r.val, <<"a","c","t","i","v","e">>).s]

\* Each writer runs add --path /v --name t or --name long, with or without
\* --set-active; the registry file is absent or holds the vault v.
InitRace ==
    /\ call \in [Writers -> {[pc |-> "start", text |-> <<>>, before |-> AbsentFile,
                              args |-> [AddPlain EXCEPT !.name = n, !.set_active = a]] :
                                 n \in {<<"t">>, <<"l", "o", "n", "g">>}, a \in BOOLEAN}]
    /\ \/ file = AbsentFile /\ clock = 0
       \/ file = [kind |-> "text", text |-> registry_text(RegistryWithV)] /\ clock = 1
    /\ last = NoInvocation
    /\ result = Pending
    /\ spawned = <<>>

\* cmd_add up to save_registry: the file is read and the document built; a
\* rejected invocation ends here.
Load(p) ==
    /\ call[p].pc = "start"
    /\ LET o == cmd_add(read_registry(file), clock, call[p].args)
       IN call' = [call EXCEPT ![p].before = file,
                               ![p].pc = IF o.rc = 0 THEN "loaded" ELSE "done",
                               ![p].text = IF o.rc = 0 THEN registry_text(o.file) ELSE <<>>]
    /\ clock' = clock + 1
    /\ UNCHANGED <<file, last, result, spawned>>

\* write_text, first half: open(mode='w') creates or empties the file.
Open(p) ==
    /\ call[p].pc = "loaded"
    /\ call' = [call EXCEPT ![p].pc = "opened"]
    /\ file' = [kind |-> "text", text |-> <<>>]
    /\ UNCHANGED <<clock, last, result, spawned>>

\* write_text, second half: the text is written from the start of the file
\* as it is closed; what the file holds beyond the text stays.
Write(p) ==
    /\ call[p].pc = "opened"
    /\ call' = [call EXCEPT ![p].pc = "done"]
    /\ file' = [kind |-> "text",
                text |-> call[p].text \o SubSeq(file.text, Len(call[p].text) + 1, Len(file.text))]
    /\ last' = [op |-> "write", writer |-> p, text |-> call[p].text,
                overlapped |-> \/ last # NoInvocation /\ last.overlapped
                               \/ \E q \in Writers \ {p} : call[q].pc = "opened"]
    /\ UNCHANGED <<clock, result, spawned>>

NextRace == \E p \in Writers : Load(p) \/ Open(p) \/ Write(p)

SpecRace == InitRace /\ [][NextRace]_vars

(***************************************************************************)
(* C15: two interleaved invocations.                                       *)
(***************************************************************************)
RaceOver == \A p \in Writers : call[p].pc = "done"

\* The text on disk is one whole document.
WholeDocument(f) ==
    /\ read_registry(f).kind = "doc"
    /\ registry_text(read_registry(f)) = f.text

\* The writer that is not the last one to have written.
EarlierWriter == CHOOSE p \in Writers : p # last.writer

\* C15: with two invocations interleaved as load / mutate / persist cycles and
\* no locking, the document on disk at the end is exactly the whole document
\* written by the last writer; when both loaded before either persisted, the
\* earlier writer's vault is not in it; and the file never holds a mixture of
\* the two writers' documents (it is absent, just emptied, or one whole
\* document).
C15_LastWriterWins ==
    /\ (file.kind = "text" /\ file.text # <<>>) => WholeDocument(file)
    /\ (RaceOver /\ last # NoInvocation) =>
          /\ file.text = last.text
          /\ (/\ call["A"].before = call["B"].before
              /\ call["A"].text # <<>> /\ call["B"].text # <<>>
              /\ call["A"].args.name # call["B"].args.name)
                => call[EarlierWriter].args.name \notin Names(read_registry(file))

====
